---- MODULE Spec2Model ----
(***************************************************************************)
(* RepositorySearchEngine: the in-memory BM25-style index over a user's    *)
(* starred repositories (apps/web/src/features/search/                     *)
(* repository-search-engine.ts).                                           *)
(*                                                                         *)
(* Representation.                                                         *)
(*  - A JavaScript string is a sequence of one-character strings.  Tokens  *)
(*    and document ids are joined back into TLA+ strings.                  *)
(*  - A JavaScript number that carries a weight, a length or a score is a  *)
(*    fixed-point integer counting thousandths (SCALE units per 1.0);      *)
(*    products and quotients are rescaled and truncated.  Counts (sizes,   *)
(*    limits, positions) are plain integers.                               *)
(*  - A Map is a function whose DOMAIN is the key set.  A Set<string>      *)
(*    whose iteration order reaches the caller (postings, matched tokens,  *)
(*    the score map) is a duplicate-free sequence in insertion order.      *)
(***************************************************************************)
EXTENDS Integers, Sequences, FiniteSets, TLC

VARIABLES
    config,                    \* this.config (fixed at construction)
    documents,                 \* this.documents : id -> RepositoryDocument
    invertedIndex,             \* this.invertedIndex : token -> postings
    documentFrequency,         \* this.documentFrequency : token -> count
    inverseDocumentFrequency,  \* this.inverseDocumentFrequency : token -> idf
    totalCorpusLength,         \* this.totalCorpusLength
    averageDocumentLength,     \* this.averageDocumentLength
    results,                   \* the value returned by the last search call
    call,                      \* the last public call and its arguments
    rawTermFrequency,          \* history: id -> termFrequency as add left it
    consolidations,            \* history: consolidate() calls since construction/reset
    hook                       \* the useRepositorySearch instance holding the engine

engine == <<documents, invertedIndex, documentFrequency,
            inverseDocumentFrequency, totalCorpusLength, averageDocumentLength>>

vars == <<config, documents, invertedIndex, documentFrequency,
          inverseDocumentFrequency, totalCorpusLength, averageDocumentLength,
          results, call, rawTermFrequency, consolidations, hook>>

(***************************************************************************)
(* Bounds of the model.                                                    *)
(***************************************************************************)
MaxDocs == 2            \* documents held at once
MaxConsolidations == 2  \* consolidate() calls between resets

(***************************************************************************)
(* Numbers.                                                                *)
(***************************************************************************)
SCALE == 10 * 10 * 10

Mul(x, y) == (x * y) \div SCALE
Div(x, y) == (x * SCALE) \div y
Max(x, y) == IF x >= y THEN x ELSE y

\* ln 2 in SCALE units
LN2 == (693 * SCALE) \div 1000

\* Math.log on fixed-point x > 0: halve or double x into [1, 2), then
\* ln x = 2 atanh((x - 1) / (x + 1)) by its odd power series.
LogSeries(x) ==
    LET y  == Div(x - SCALE, x + SCALE)
        y2 == Mul(y, y)
        y3 == Mul(y, y2)
        y5 == Mul(y3, y2)
        y7 == Mul(y5, y2)
    IN 2 * (y + y3 \div 3 + y5 \div 5 + y7 \div 7)

RECURSIVE LogReduce(_, _)
LogReduce(x, acc) ==
    IF x >= 2 * SCALE THEN LogReduce(x \div 2, acc + LN2)
    ELSE IF x < SCALE THEN LogReduce(x * 2, acc - LN2)
    ELSE acc + LogSeries(x)

MathLog(x) == LogReduce(x, 0)

(***************************************************************************)
(* Strings.                                                                *)
(***************************************************************************)
LowerLetters == {"a", "b", "c", "o", "p", "q"}
Digits == {"1"}

\* String.prototype.toLowerCase, one character at a time
ToLowerCase(c) ==
    CASE c = "A" -> "a"
      [] c = "B" -> "b"
      [] c = "C" -> "c"
      [] c = "O" -> "o"
      [] c = "P" -> "p"
      [] c = "Q" -> "q"
      [] OTHER -> c

WhiteSpace == {" "}

RECURSIVE Join(_)
Join(chars) == IF chars = <<>> THEN "" ELSE Head(chars) \o Join(Tail(chars))

\* Array.prototype.slice(0, end)
Slice(seq, end) ==
    LET stop == IF end < 0 THEN Max(Len(seq) + end, 0)
                ELSE IF end > Len(seq) THEN Len(seq) ELSE end
    IN SubSeq(seq, 1, stop)

\* String.prototype.trim
RECURSIVE TrimStart(_)
TrimStart(s) ==
    IF s # <<>> /\ Head(s) \in WhiteSpace THEN TrimStart(Tail(s)) ELSE s

RECURSIVE TrimEnd(_)
TrimEnd(s) ==
    IF s # <<>> /\ s[Len(s)] \in WhiteSpace
    THEN TrimEnd(SubSeq(s, 1, Len(s) - 1)) ELSE s

Trim(s) == TrimEnd(TrimStart(s))

\* lowered.match(/[a-z0-9]+/g): the maximal runs of [a-z0-9], left to right
RECURSIVE MatchRuns(_, _, _)
MatchRuns(s, run, acc) ==
    IF s = <<>>
    THEN IF run = <<>> THEN acc ELSE Append(acc, Join(run))
    ELSE IF Head(s) \in LowerLetters \cup Digits
         THEN MatchRuns(Tail(s), Append(run, Head(s)), acc)
         ELSE MatchRuns(Tail(s), <<>>,
                        IF run = <<>> THEN acc ELSE Append(acc, Join(run)))

\* an argument or option left out; Number.POSITIVE_INFINITY
Undefined == -1073741824
POSITIVE_INFINITY == 1073741823

\* ToBoolean of a number or undefined
Truthy(n) == n # Undefined /\ n # 0

\* tokenize matching on value itself, without value.toLowerCase()
tokenize_caseSensitive(value, limit) ==
    LET tokens == MatchRuns(value, <<>>, <<>>)
    IN IF Truthy(limit) /\ Len(tokens) > limit
       THEN Slice(tokens, limit)
       ELSE tokens

tokenize(value, limit) ==
    LET lowered == [i \in 1..Len(value) |-> ToLowerCase(value[i])]
        tokens  == MatchRuns(lowered, <<>>, <<>>)
    IN IF Truthy(limit) /\ Len(tokens) > limit
       THEN Slice(tokens, limit)
       ELSE tokens

RECURSIVE uniqueTokens(_)
uniqueTokens(tokens) ==
    IF tokens = <<>> THEN <<>>
    ELSE LET init == uniqueTokens(SubSeq(tokens, 1, Len(tokens) - 1))
             last == tokens[Len(tokens)]
         IN IF \E i \in 1..Len(init) : init[i] = last
            THEN init ELSE Append(init, last)

buildRepositoryId(repository) ==
    Join(repository.owner) \o "/" \o Join(repository.name)

\* the for-loop of normalizeKeywords from keyword i on
RECURSIVE CollectKeywords(_, _, _, _)
CollectKeywords(keywords, i, limit, collected) ==
    IF i > Len(keywords) THEN collected
    ELSE LET trimmed == Trim(keywords[i])
         IN IF Len(trimmed) = 0
            THEN CollectKeywords(keywords, i + 1, limit, collected)
            ELSE LET next == collected \o tokenize(trimmed, Undefined)
                 IN IF Truthy(limit) /\ Len(next) >= limit
                    THEN next
                    ELSE CollectKeywords(keywords, i + 1, limit, next)

\* normalizeKeywords returning the collected tokens without uniqueTokens
normalizeKeywords_noDedup(keywords, limit) ==
    LET collected == CollectKeywords(keywords, 1, limit, <<>>)
    IN IF Truthy(limit) THEN Slice(collected, limit) ELSE collected

normalizeKeywords(keywords, limit) ==
    LET collected == CollectKeywords(keywords, 1, limit, <<>>)
    IN uniqueTokens(IF Truthy(limit) THEN Slice(collected, limit) ELSE collected)

(***************************************************************************)
(* Configuration.                                                          *)
(***************************************************************************)
DEFAULT_KEYWORD_LIMIT == 64
MIN_SEARCH_RESULTS == 1
DEFAULT_SEARCH_LIMIT == 10
BM25_IDF_SMOOTHING == SCALE \div 2

\* defaultConfig with the weights of name and description exchanged
defaultConfig_swappedWeights ==
    [fieldWeights |-> [owner       |-> (5 * SCALE) \div 10,
                       name        |-> (12 * SCALE) \div 10,
                       description |-> 2 * SCALE,
                       readme      |-> (4 * SCALE) \div 10],
     k1 |-> (12 * SCALE) \div 10,
     b |-> (75 * SCALE) \div 100,
     k |-> SCALE,
     delta |-> (5 * SCALE) \div 10,
     maxReadmeTokens |-> POSITIVE_INFINITY,
     maxKeywords |-> DEFAULT_KEYWORD_LIMIT]

defaultConfig ==
    [fieldWeights |-> [owner       |-> (5 * SCALE) \div 10,
                       name        |-> 2 * SCALE,
                       description |-> (12 * SCALE) \div 10,
                       readme      |-> (4 * SCALE) \div 10],
     k1 |-> (12 * SCALE) \div 10,
     b |-> (75 * SCALE) \div 100,
     k |-> SCALE,
     delta |-> (5 * SCALE) \div 10,
     maxReadmeTokens |-> POSITIVE_INFINITY,
     maxKeywords |-> DEFAULT_KEYWORD_LIMIT]

\* Partial<EngineConfig>: a record holding only the overridden keys
NoOverrides == [none |-> TRUE]

Override(overrides, key) ==
    IF key \in DOMAIN overrides THEN overrides[key] ELSE defaultConfig[key]

composeConfig(overrides) ==
    IF overrides = NoOverrides THEN defaultConfig
    ELSE [fieldWeights |->
            [f \in DOMAIN defaultConfig.fieldWeights |->
                IF "fieldWeights" \in DOMAIN overrides
                   /\ f \in DOMAIN overrides.fieldWeights
                THEN overrides.fieldWeights[f]
                ELSE defaultConfig.fieldWeights[f]],
          k1 |-> Override(overrides, "k1"),
          b |-> Override(overrides, "b"),
          k |-> Override(overrides, "k"),
          delta |-> Override(overrides, "delta"),
          maxReadmeTokens |-> Override(overrides, "maxReadmeTokens"),
          maxKeywords |-> Override(overrides, "maxKeywords")]

(***************************************************************************)
(* Maps.                                                                   *)
(***************************************************************************)
EmptyMap == <<>>

\* Map.prototype.get(key) ?? fallback
GetOr(map, key, fallback) == IF key \in DOMAIN map THEN map[key] ELSE fallback

\* Map.prototype.set(key, value)
MapSet(map, key, value) ==
    [x \in DOMAIN map \cup {key} |-> IF x = key THEN value ELSE map[x]]

\* Set.prototype.add(value) on a set kept in insertion order
SetAdd(seq, value) ==
    IF \E i \in 1..Len(seq) : seq[i] = value THEN seq ELSE Append(seq, value)

Members(seq) == {seq[i] : i \in 1..Len(seq)}

(***************************************************************************)
(* Ingestion.  An ingest step returns the document and the inverted index  *)
(* it leaves.                                                              *)
(***************************************************************************)
\* for (const token of tokens) { termFrequency.set(token, weighted + weight) }
\* the loop storing the weight instead of adding it to the token's entry
RECURSIVE AccumulateWeights_overwrite(_, _, _)
AccumulateWeights_overwrite(termFrequency, tokens, weight) ==
    IF tokens = <<>> THEN termFrequency
    ELSE AccumulateWeights_overwrite(
            MapSet(termFrequency, Head(tokens), weight),
            Tail(tokens), weight)

RECURSIVE AccumulateWeights(_, _, _)
AccumulateWeights(termFrequency, tokens, weight) ==
    IF tokens = <<>> THEN termFrequency
    ELSE AccumulateWeights(
            MapSet(termFrequency, Head(tokens),
                   GetOr(termFrequency, Head(tokens), 0) + weight),
            Tail(tokens), weight)

\* for (const token of docTokens) { invertedIndex.get(token).add(doc.id) }
RECURSIVE RegisterPostings(_, _, _)
RegisterPostings(index, docTokens, id) ==
    IF docTokens = <<>> THEN index
    ELSE RegisterPostings(
            MapSet(index, Head(docTokens),
                   SetAdd(GetOr(index, Head(docTokens), <<>>), id)),
            Tail(docTokens), id)

\* ingestText without the weight <= 0 return
ingestText_noWeightCheck(doc, index, rawValue, weight) ==
    IF rawValue = <<>> THEN [doc |-> doc, index |-> index]
    ELSE LET tokens == tokenize(rawValue, Undefined)
         IN IF Len(tokens) = 0 THEN [doc |-> doc, index |-> index]
            ELSE [doc |-> [doc EXCEPT
                            !.termFrequency =
                                AccumulateWeights(@, tokens, weight),
                            !.length = @ + Len(tokens) * weight],
                  index |-> RegisterPostings(index, uniqueTokens(tokens),
                                             doc.id)]

ingestText(doc, index, rawValue, weight) ==
    IF rawValue = <<>> THEN [doc |-> doc, index |-> index]
    ELSE IF weight <= 0 THEN [doc |-> doc, index |-> index]
    ELSE LET tokens == tokenize(rawValue, Undefined)
         IN IF Len(tokens) = 0 THEN [doc |-> doc, index |-> index]
            ELSE [doc |-> [doc EXCEPT
                            !.termFrequency =
                                AccumulateWeights(@, tokens, weight),
                            !.length = @ + Len(tokens) * weight],
                  index |-> RegisterPostings(index, uniqueTokens(tokens),
                                             doc.id)]

\* ingestField without the loop that registers the postings
ingestField_noPostings(doc, index, rawValue, weight, tokenLimit) ==
    IF rawValue = <<>> THEN [doc |-> doc, index |-> index]
    ELSE IF weight <= 0 THEN [doc |-> doc, index |-> index]
    ELSE LET tokens == tokenize(rawValue, tokenLimit)
         IN IF Len(tokens) = 0 THEN [doc |-> doc, index |-> index]
            ELSE [doc |-> [doc EXCEPT
                            !.termFrequency =
                                AccumulateWeights(@, tokens, weight),
                            !.length = @ + Len(tokens) * weight],
                  index |-> index]

ingestField(doc, index, rawValue, weight, tokenLimit) ==
    IF rawValue = <<>> THEN [doc |-> doc, index |-> index]
    ELSE IF weight <= 0 THEN [doc |-> doc, index |-> index]
    ELSE LET tokens == tokenize(rawValue, tokenLimit)
         IN IF Len(tokens) = 0 THEN [doc |-> doc, index |-> index]
            ELSE [doc |-> [doc EXCEPT
                            !.termFrequency =
                                AccumulateWeights(@, tokens, weight),
                            !.length = @ + Len(tokens) * weight],
                  index |-> RegisterPostings(index, uniqueTokens(tokens),
                                             doc.id)]

\* a nullable string: value ?? ""
Null == <<"null">>
OrEmpty(value) == IF value = Null THEN <<>> ELSE value

\* add() past its duplicate check: the four ingest calls in order
IngestRepository(id, repository) ==
    LET doc0 == [id |-> id, repository |-> repository,
                 termFrequency |-> EmptyMap, length |-> 0]
        w  == config.fieldWeights
        s1 == ingestText(doc0, invertedIndex, repository.owner, w.owner)
        s2 == ingestText(s1.doc, s1.index, repository.name, w.name)
        s3 == ingestField(s2.doc, s2.index, OrEmpty(repository.description),
                          w.description, Undefined)
        s4 == ingestField(s3.doc, s3.index, OrEmpty(repository.readme),
                          w.readme, config.maxReadmeTokens)
    IN s4

(***************************************************************************)
(* Consolidation.                                                          *)
(***************************************************************************)
\* normalizeDocumentFrequencies, reading the idf map and the average length
\* that consolidate() has just stored
\* the scores without the length norm: normalizationFactor = 1
normalizeDocumentFrequencies_noLengthNorm(doc, idfMap, average) ==
    LET denominator(frequency) == frequency + Mul(config.k1, SCALE)
        kept == {token \in DOMAIN doc.termFrequency :
                    /\ token \in DOMAIN idfMap
                    /\ doc.termFrequency[token] > 0
                    /\ denominator(doc.termFrequency[token]) # 0}
    IN [token \in kept |->
            LET frequency == doc.termFrequency[token]
                baseTf == (frequency * (config.k1 + SCALE))
                              \div denominator(frequency)
                tf == baseTf + config.delta
            IN Mul(tf, idfMap[token])]

normalizeDocumentFrequencies(doc, idfMap, average) ==
    LET averageLength == IF average # 0 THEN average ELSE SCALE
        normalizationFactor ==
            SCALE - config.b + Mul(config.b, Div(doc.length, averageLength))
        denominator(frequency) ==
            frequency + Mul(config.k1, normalizationFactor)
        kept == {token \in DOMAIN doc.termFrequency :
                    /\ token \in DOMAIN idfMap
                    /\ doc.termFrequency[token] > 0
                    /\ denominator(doc.termFrequency[token]) # 0}
    IN [token \in kept |->
            LET frequency == doc.termFrequency[token]
                baseTf == (frequency * (config.k1 + SCALE))
                              \div denominator(frequency)
                tf == baseTf + config.delta
            IN Mul(tf, idfMap[token])]

\* lines 178-181: documentFrequency rebuilt from the postings
RebuildDocumentFrequency(index) ==
    [token \in DOMAIN index |-> Len(index[token])]

\* the idf without the + k inside the logarithm (textbook BM25)
RebuildInverseDocumentFrequency_noK(frequencies, size) ==
    [token \in DOMAIN frequencies |->
        MathLog(Div(size * SCALE - frequencies[token] * SCALE
                        + BM25_IDF_SMOOTHING,
                    frequencies[token] * SCALE + BM25_IDF_SMOOTHING))]

\* lines 183-192: inverseDocumentFrequency rebuilt from documentFrequency
RebuildInverseDocumentFrequency(frequencies, size) ==
    [token \in DOMAIN frequencies |->
        MathLog(Div(size * SCALE - frequencies[token] * SCALE
                        + BM25_IDF_SMOOTHING,
                    frequencies[token] * SCALE + BM25_IDF_SMOOTHING)
                + config.k)]

(***************************************************************************)
(* Query.                                                                  *)
(***************************************************************************)
\* the accumulators of search(): scores (a Map, with its key order) and
\* matches
NoScores == [order |-> <<>>, scores |-> EmptyMap, matches |-> EmptyMap]

\* the loop storing termScore instead of adding it to the running score
RECURSIVE ScorePostings_overwrite(_, _, _)
ScorePostings_overwrite(keyword, docIds, acc) ==
    IF docIds = <<>> THEN acc
    ELSE LET id == Head(docIds)
         IN IF id \notin DOMAIN documents
            THEN ScorePostings_overwrite(keyword, Tail(docIds), acc)
            ELSE LET termScore ==
                        GetOr(documents[id].termFrequency, keyword, 0)
                 IN ScorePostings_overwrite(keyword, Tail(docIds),
                        [order   |-> SetAdd(acc.order, id),
                         scores  |-> MapSet(acc.scores, id, termScore),
                         matches |-> MapSet(acc.matches, id,
                                        SetAdd(GetOr(acc.matches, id, <<>>),
                                               keyword))])

\* the loop recording the keyword only when it creates the document's
\* matches entry
RECURSIVE ScorePostings_firstMatch(_, _, _)
ScorePostings_firstMatch(keyword, docIds, acc) ==
    IF docIds = <<>> THEN acc
    ELSE LET id == Head(docIds)
         IN IF id \notin DOMAIN documents
            THEN ScorePostings_firstMatch(keyword, Tail(docIds), acc)
            ELSE LET termScore ==
                        GetOr(documents[id].termFrequency, keyword, 0)
                 IN ScorePostings_firstMatch(keyword, Tail(docIds),
                        [order   |-> SetAdd(acc.order, id),
                         scores  |-> MapSet(acc.scores, id,
                                        GetOr(acc.scores, id, 0) + termScore),
                         matches |-> IF id \in DOMAIN acc.matches
                                     THEN acc.matches
                                     ELSE MapSet(acc.matches, id,
                                                 <<keyword>>)])

\* the loop passing over a document whose termFrequency has no entry for
\* the keyword
RECURSIVE ScorePostings_skipUnscored(_, _, _)
ScorePostings_skipUnscored(keyword, docIds, acc) ==
    IF docIds = <<>> THEN acc
    ELSE LET id == Head(docIds)
         IN IF id \notin DOMAIN documents
               \/ keyword \notin DOMAIN documents[id].termFrequency
            THEN ScorePostings_skipUnscored(keyword, Tail(docIds), acc)
            ELSE LET termScore == documents[id].termFrequency[keyword]
                 IN ScorePostings_skipUnscored(keyword, Tail(docIds),
                        [order   |-> SetAdd(acc.order, id),
                         scores  |-> MapSet(acc.scores, id,
                                        GetOr(acc.scores, id, 0) + termScore),
                         matches |-> MapSet(acc.matches, id,
                                        SetAdd(GetOr(acc.matches, id, <<>>),
                                               keyword))])

\* the loop keying scores and matches by the keyword instead of the
\* document id
RECURSIVE ScorePostings_keyedByKeyword(_, _, _)
ScorePostings_keyedByKeyword(keyword, docIds, acc) ==
    IF docIds = <<>> THEN acc
    ELSE LET id == Head(docIds)
         IN IF id \notin DOMAIN documents
            THEN ScorePostings_keyedByKeyword(keyword, Tail(docIds), acc)
            ELSE LET termScore ==
                        GetOr(documents[id].termFrequency, keyword, 0)
                 IN ScorePostings_keyedByKeyword(keyword, Tail(docIds),
                        [order   |-> SetAdd(acc.order, keyword),
                         scores  |-> MapSet(acc.scores, keyword,
                                        GetOr(acc.scores, keyword, 0)
                                            + termScore),
                         matches |-> MapSet(acc.matches, keyword,
                                        SetAdd(GetOr(acc.matches, keyword,
                                                     <<>>),
                                               keyword))])

\* the loop over docIds in updateScoresForKeyword
\* every match adding 1 to the score instead of the stored termScore
RECURSIVE ScorePostings_countsMatches(_, _, _)
ScorePostings_countsMatches(keyword, docIds, acc) ==
    IF docIds = <<>> THEN acc
    ELSE LET id == Head(docIds)
         IN IF id \notin DOMAIN documents
            THEN ScorePostings_countsMatches(keyword, Tail(docIds), acc)
            ELSE ScorePostings_countsMatches(keyword, Tail(docIds),
                    [order   |-> SetAdd(acc.order, id),
                     scores  |-> MapSet(acc.scores, id,
                                    GetOr(acc.scores, id, 0) + SCALE),
                     matches |-> MapSet(acc.matches, id,
                                    SetAdd(GetOr(acc.matches, id, <<>>),
                                           keyword))])

RECURSIVE ScorePostings(_, _, _)
ScorePostings(keyword, docIds, acc) ==
    IF docIds = <<>> THEN acc
    ELSE LET id == Head(docIds)
         IN IF id \notin DOMAIN documents
            THEN ScorePostings(keyword, Tail(docIds), acc)
            ELSE LET termScore ==
                        GetOr(documents[id].termFrequency, keyword, 0)
                 IN ScorePostings(keyword, Tail(docIds),
                        [order   |-> SetAdd(acc.order, id),
                         scores  |-> MapSet(acc.scores, id,
                                        GetOr(acc.scores, id, 0) + termScore),
                         matches |-> MapSet(acc.matches, id,
                                        SetAdd(GetOr(acc.matches, id, <<>>),
                                               keyword))])

\* a keyword without postings discarding the scores gathered so far
updateScoresForKeyword_unknownClears(keyword, acc) ==
    IF keyword \notin DOMAIN invertedIndex THEN NoScores
    ELSE ScorePostings(keyword, invertedIndex[keyword], acc)

updateScoresForKeyword(keyword, acc) ==
    IF keyword \notin DOMAIN invertedIndex THEN acc
    ELSE ScorePostings(keyword, invertedIndex[keyword], acc)

RECURSIVE ScoreKeywords(_, _)
ScoreKeywords(normalizedKeywords, acc) ==
    IF normalizedKeywords = <<>> THEN acc
    ELSE ScoreKeywords(Tail(normalizedKeywords),
                       updateScoresForKeyword(Head(normalizedKeywords), acc))

\* the comparator reversed: (a, b) => a.score - b.score
RECURSIVE InsertByScore_ascending(_, _)
InsertByScore_ascending(sorted, entry) ==
    IF sorted = <<>> THEN <<entry>>
    ELSE IF Head(sorted).score <= entry.score
         THEN <<Head(sorted)>> \o InsertByScore_ascending(Tail(sorted), entry)
         ELSE <<entry>> \o sorted

\* Array.prototype.sort((a, b) => b.score - a.score): stable, descending
RECURSIVE InsertByScore(_, _)
InsertByScore(sorted, entry) ==
    IF sorted = <<>> THEN <<entry>>
    ELSE IF Head(sorted).score >= entry.score
         THEN <<Head(sorted)>> \o InsertByScore(Tail(sorted), entry)
         ELSE <<entry>> \o sorted

RECURSIVE SortByScore(_)
SortByScore(entries) ==
    IF entries = <<>> THEN <<>>
    ELSE InsertByScore(SortByScore(SubSeq(entries, 1, Len(entries) - 1)),
                       entries[Len(entries)])

\* the limit without its floor of MIN_SEARCH_RESULTS
SearchLimit_noFloor(limit) ==
    IF limit = Undefined THEN DEFAULT_SEARCH_LIMIT ELSE limit

SearchLimit(limit) ==
    Max(IF limit = Undefined THEN DEFAULT_SEARCH_LIMIT ELSE limit,
        MIN_SEARCH_RESULTS)

\* what search() throws when a ranked id has no document
InvariantViolated ==
    << [thrown |-> "Invariant violated: missing repository document"] >>

\* the value search(keywords, { limit }) returns in the current state
SearchResults(keywords, limit) ==
    IF Cardinality(DOMAIN documents) = 0 THEN <<>>
    ELSE LET normalizedKeywords ==
                normalizeKeywords(keywords, config.maxKeywords)
         IN IF Len(normalizedKeywords) = 0 THEN <<>>
            ELSE LET acc == ScoreKeywords(normalizedKeywords, NoScores)
                     entries == [i \in 1..Len(acc.order) |->
                                    [id |-> acc.order[i],
                                     score |-> acc.scores[acc.order[i]]]]
                     ranked == Slice(SortByScore(entries), SearchLimit(limit))
                 IN IF \E i \in 1..Len(ranked) :
                            ranked[i].id \notin DOMAIN documents
                    THEN InvariantViolated
                    ELSE [i \in 1..Len(ranked) |->
                            [id |-> ranked[i].id,
                             repository |-> documents[ranked[i].id].repository,
                             score |-> ranked[i].score,
                             matchedTokens |->
                                 GetOr(acc.matches, ranked[i].id, <<>>)]]

(***************************************************************************)
(* Inputs: the configurations, repositories, keyword lists and limits the  *)
(* callers pass.                                                           *)
(***************************************************************************)
OverridesPool ==
    { NoOverrides,
      [k |-> 0],
      [maxReadmeTokens |-> 2, maxKeywords |-> 2],
      [fieldWeights |-> [owner |-> 0, description |-> 0 - SCALE]] }

Repository(owner, name, description, readme) ==
    [owner |-> owner, name |-> name,
     description |-> description, readme |-> readme]

RepositoryPool ==
    { Repository(<<"a">>, <<"b">>, <<"B", " ", "c">>, Null),
      Repository(<<"a">>, <<"b">>, <<"p">>, <<"q">>),
      Repository(<<"a">>, <<"c">>, Null, <<"b", "-", "a", ".", "c">>),
      Repository(<<"o">>, <<"B", "-", "c">>, <<>>, Null),
      Repository(<<"b">>, <<"1">>, Null, <<>>) }

KeywordPool ==
    { << <<" ">>, <<>> >>,
      << <<"B">>, <<" ", "b", " ">>, <<"b">> >>,
      << <<"o">>, <<"q">> >>,
      << <<"c", "-", "b">>, <<"a">> >> }

LimitPool == {Undefined, -1, 0, 1}

(***************************************************************************)
(* The public operations.                                                  *)
(***************************************************************************)
size == Cardinality(DOMAIN documents)

\* the engine is used on its own: no useRepositorySearch is mounted
NoHook == [pc |-> "unmounted"]

Init ==
    /\ config \in {composeConfig(overrides) : overrides \in OverridesPool}
    /\ documents = EmptyMap
    /\ invertedIndex = EmptyMap
    /\ documentFrequency = EmptyMap
    /\ inverseDocumentFrequency = EmptyMap
    /\ totalCorpusLength = 0
    /\ averageDocumentLength = 0
    /\ results = <<>>
    /\ call = [op |-> "new"]
    /\ rawTermFrequency = EmptyMap
    /\ consolidations = 0
    /\ hook = NoHook

\* reset() without this.invertedIndex.clear()
reset_keepsIndex ==
    /\ documents' = EmptyMap
    /\ documentFrequency' = EmptyMap
    /\ inverseDocumentFrequency' = EmptyMap
    /\ totalCorpusLength' = 0
    /\ averageDocumentLength' = 0
    /\ results' = <<>>
    /\ call' = [op |-> "reset", cleared |-> size]
    /\ rawTermFrequency' = EmptyMap
    /\ consolidations' = 0
    /\ UNCHANGED <<config, invertedIndex>>

\* reset() without its totalCorpusLength = 0
reset_keepsCorpusLength ==
    /\ documents' = EmptyMap
    /\ invertedIndex' = EmptyMap
    /\ documentFrequency' = EmptyMap
    /\ inverseDocumentFrequency' = EmptyMap
    /\ averageDocumentLength' = 0
    /\ results' = <<>>
    /\ call' = [op |-> "reset", cleared |-> size]
    /\ rawTermFrequency' = EmptyMap
    /\ consolidations' = 0
    /\ UNCHANGED <<config, totalCorpusLength>>

reset ==
    /\ documents' = EmptyMap
    /\ invertedIndex' = EmptyMap
    /\ documentFrequency' = EmptyMap
    /\ inverseDocumentFrequency' = EmptyMap
    /\ totalCorpusLength' = 0
    /\ averageDocumentLength' = 0
    /\ results' = <<>>
    /\ call' = [op |-> "reset", cleared |-> size]
    /\ rawTermFrequency' = EmptyMap
    /\ consolidations' = 0
    /\ UNCHANGED config

\* add() refreshing averageDocumentLength as it stores the document
store_eagerAverage(id, repository) ==
    LET ingested == IngestRepository(id, repository)
    IN /\ invertedIndex' = ingested.index
       /\ totalCorpusLength' = totalCorpusLength + ingested.doc.length
       /\ documents' = MapSet(documents, id, ingested.doc)
       /\ rawTermFrequency' =
            MapSet(rawTermFrequency, id, ingested.doc.termFrequency)
       /\ averageDocumentLength' =
            (totalCorpusLength + ingested.doc.length) \div (size + 1)
       /\ UNCHANGED <<documentFrequency, inverseDocumentFrequency>>

\* add() past its duplicate check (lines 145-168)
store(id, repository) ==
    LET ingested == IngestRepository(id, repository)
    IN /\ invertedIndex' = ingested.index
       /\ totalCorpusLength' = totalCorpusLength + ingested.doc.length
       /\ documents' = MapSet(documents, id, ingested.doc)
       /\ rawTermFrequency' =
            MapSet(rawTermFrequency, id, ingested.doc.termFrequency)
       /\ UNCHANGED <<documentFrequency, inverseDocumentFrequency,
                      averageDocumentLength>>

\* add() without the documents.has(id) check
add_noDuplicateCheck(repository) ==
    LET id == buildRepositoryId(repository)
    IN /\ store(id, repository)
       /\ results' = <<>>
       /\ call' = [op |-> "add", repository |-> repository]
       /\ UNCHANGED <<config, consolidations>>

add(repository) ==
    LET id == buildRepositoryId(repository)
    IN /\ IF id \in DOMAIN documents
          THEN UNCHANGED <<engine, rawTermFrequency>>
          ELSE store(id, repository)
       /\ results' = <<>>
       /\ call' = [op |-> "add", repository |-> repository]
       /\ UNCHANGED <<config, consolidations>>

\* consolidate() returning right after inverseDocumentFrequency.clear()
consolidate_truncated ==
    /\ consolidations < MaxConsolidations
    /\ IF size = 0
       THEN UNCHANGED engine
       ELSE /\ averageDocumentLength' = totalCorpusLength \div Max(size, 1)
            /\ documentFrequency' = RebuildDocumentFrequency(invertedIndex)
            /\ inverseDocumentFrequency' = EmptyMap
            /\ UNCHANGED <<documents, invertedIndex, totalCorpusLength>>
    /\ results' = <<>>
    /\ call' = [op |-> "consolidate"]
    /\ consolidations' = consolidations + 1
    /\ UNCHANGED <<config, rawTermFrequency>>

\* consolidate() without its empty-corpus return, dividing by
\* this.documents.size itself: 0 / 0 is NaN, written -1 here
consolidate_noEmptyReturn ==
    /\ consolidations < MaxConsolidations
    /\ LET average == IF size = 0 THEN 0 - 1 ELSE totalCorpusLength \div size
           frequencies == RebuildDocumentFrequency(invertedIndex)
           idfMap == RebuildInverseDocumentFrequency(frequencies, size)
       IN /\ averageDocumentLength' = average
          /\ documentFrequency' = frequencies
          /\ inverseDocumentFrequency' = idfMap
          /\ documents' =
               [id \in DOMAIN documents |->
                   [documents[id] EXCEPT !.termFrequency =
                       normalizeDocumentFrequencies(documents[id],
                                                    idfMap, average)]]
          /\ UNCHANGED <<invertedIndex, totalCorpusLength>>
    /\ results' = <<>>
    /\ call' = [op |-> "consolidate"]
    /\ consolidations' = consolidations + 1
    /\ UNCHANGED <<config, rawTermFrequency>>

consolidate ==
    /\ consolidations < MaxConsolidations
    /\ IF size = 0
       THEN UNCHANGED engine
       ELSE LET average == totalCorpusLength \div Max(size, 1)
                frequencies == RebuildDocumentFrequency(invertedIndex)
                idfMap == RebuildInverseDocumentFrequency(frequencies, size)
            IN /\ averageDocumentLength' = average
               /\ documentFrequency' = frequencies
               /\ inverseDocumentFrequency' = idfMap
               /\ documents' =
                    [id \in DOMAIN documents |->
                        [documents[id] EXCEPT !.termFrequency =
                            normalizeDocumentFrequencies(documents[id],
                                                         idfMap, average)]]
               /\ UNCHANGED <<invertedIndex, totalCorpusLength>>
    /\ results' = <<>>
    /\ call' = [op |-> "consolidate"]
    /\ consolidations' = consolidations + 1
    /\ UNCHANGED <<config, rawTermFrequency>>

\* search() refreshing averageDocumentLength before it ranks
search_refreshesAverage(keywords, limit) ==
    /\ results' = SearchResults(keywords, limit)
    /\ call' = [op |-> "search", keywords |-> keywords, limit |-> limit]
    /\ averageDocumentLength' = totalCorpusLength \div Max(size, 1)
    /\ UNCHANGED <<config, documents, invertedIndex, documentFrequency,
                   inverseDocumentFrequency, totalCorpusLength,
                   rawTermFrequency, consolidations>>

search(keywords, limit) ==
    /\ results' = SearchResults(keywords, limit)
    /\ call' = [op |-> "search", keywords |-> keywords, limit |-> limit]
    /\ UNCHANGED <<config, engine, rawTermFrequency, consolidations>>

\* the engine holds fewer than capacity documents, or already holds this one
HasRoom(repository, capacity) ==
    size < capacity \/ buildRepositoryId(repository) \in DOMAIN documents

Next ==
    \/ \E repository \in RepositoryPool :
            HasRoom(repository, MaxDocs) /\ add(repository)
                /\ UNCHANGED hook
    \/ consolidate /\ UNCHANGED hook
    \/ reset /\ UNCHANGED hook
    \/ \E keywords \in KeywordPool, limit \in LimitPool :
            search(keywords, limit) /\ UNCHANGED hook

Spec == Init /\ [][Next]_vars

(***************************************************************************)
(* A larger corpus under the default configuration: the caller adds a     *)
(* list of repositories in order (as useRepositorySearch does), so that   *)
(* more documents match a query than the default limit lets through.      *)
(***************************************************************************)
MaxBulkDocs == 11

\* the i-th repository of the list: its own name, a shared description
BulkRepository(i) ==
    Repository(<<"o">>, [j \in 1..i |-> "a"],
               IF i % 2 = 0 THEN <<"b">> ELSE <<"b", " ", "B">>, Null)

BulkKeywords == << <<"b">> >>

InitBulk == Init /\ config = defaultConfig

NextBulk ==
    \/ size < MaxBulkDocs /\ add(BulkRepository(size + 1)) /\ UNCHANGED hook
    \/ consolidate /\ UNCHANGED hook
    \/ reset /\ UNCHANGED hook
    \/ \E limit \in LimitPool : search(BulkKeywords, limit)
            /\ UNCHANGED hook

SpecBulk == InitBulk /\ [][NextBulk]_vars

(***************************************************************************)
(* Field weighting under the default configuration: repositories that     *)
(* hold the term q once, in the name, in the description or in the owner,  *)
(* and differ in what else they hold.                                      *)
(***************************************************************************)
MaxPriorityDocs == 3      \* documents held at once
LongReadmeTokens == 20    \* tokens of the long readme

\* a readme of LongReadmeTokens words
LongReadme ==
    [j \in 1..(2 * LongReadmeTokens - 1) |-> IF j % 2 = 1 THEN "c" ELSE " "]

PriorityPool ==
    { Repository(<<"a">>, <<"q">>, Null, Null),
      Repository(<<"b">>, <<"q">>, <<"c">>, Null),
      Repository(<<"c">>, <<"q">>, Null, LongReadme),
      Repository(<<"a">>, <<"b">>, <<"q">>, Null),
      Repository(<<"q">>, <<"a">>, Null, Null),
      Repository(<<"q">>, <<"b">>, <<"c">>, Null) }

PriorityKeywords == << <<"q">> >>

InitPriority == Init /\ config = defaultConfig

NextPriority ==
    \/ \E repository \in PriorityPool :
            HasRoom(repository, MaxPriorityDocs) /\ add(repository)
                /\ UNCHANGED hook
    \/ consolidate /\ UNCHANGED hook
    \/ reset /\ UNCHANGED hook
    \/ \E limit \in LimitPool : search(PriorityKeywords, limit)
            /\ UNCHANGED hook

SpecPriority == InitPriority /\ [][NextPriority]_vars

(***************************************************************************)
(* Engines constructed with token caps: maxReadmeTokens and maxKeywords    *)
(* set to 0 and to 1, on readmes and keyword lists longer than that.       *)
(***************************************************************************)
CapOverridesPool ==
    { [maxReadmeTokens |-> 0, maxKeywords |-> 0],
      [maxReadmeTokens |-> 1, maxKeywords |-> 1] }

CapRepositoryPool ==
    { Repository(<<"a">>, <<"b">>, Null, <<"b", " ", "c", " ", "q">>),
      Repository(<<"a">>, <<"b">>, <<"c">>, Null),
      Repository(<<"o">>, <<"c">>, <<"p">>, <<"q", ".", "B">>) }

CapKeywordPool ==
    { << <<"q", " ", "c">> >>,
      << <<"b">>, <<"q">> >>,
      << <<" ">>, <<"c", "-", "c">>, <<"p">> >> }

InitCaps ==
    /\ config \in {composeConfig(overrides) : overrides \in CapOverridesPool}
    /\ documents = EmptyMap
    /\ invertedIndex = EmptyMap
    /\ documentFrequency = EmptyMap
    /\ inverseDocumentFrequency = EmptyMap
    /\ totalCorpusLength = 0
    /\ averageDocumentLength = 0
    /\ results = <<>>
    /\ call = [op |-> "new"]
    /\ rawTermFrequency = EmptyMap
    /\ consolidations = 0
    /\ hook = NoHook

NextCaps ==
    \/ \E repository \in CapRepositoryPool :
            HasRoom(repository, MaxDocs) /\ add(repository)
                /\ UNCHANGED hook
    \/ consolidate /\ UNCHANGED hook
    \/ reset /\ UNCHANGED hook
    \/ \E keywords \in CapKeywordPool, limit \in LimitPool :
            search(keywords, limit) /\ UNCHANGED hook

SpecCaps == InitCaps /\ [][NextCaps]_vars

(***************************************************************************)
(* useRepositorySearch (use-repository-search.ts).  The hook record holds  *)
(*   repositories   the repositories argument of the last render,          *)
(*   previous       the argument of the render before it (history),        *)
(*   pc             "effect": the effect of the last render has yet to     *)
(*                  run; "adding": it is inside its loop, at repository    *)
(*                  next; "idle": it has run,                              *)
(*   engineRef      engineRef.current: "null", or "engine" for the engine  *)
(*                  the engine variables describe,                         *)
(*   isReady, indexedCount   the two state cells as last set,              *)
(*   searchIsReady  the isReady that the search callback of the last       *)
(*                  render closed over,                                    *)
(*   lastSearch     history: whether the last search call was passed on    *)
(*                  to the engine.                                         *)
(* While the effect builds a new engine the engine variables describe the  *)
(* engine under construction; nothing can call search in between.          *)
(***************************************************************************)
\* repositories: null, which is not a list of records
NullRepositories == << [null |-> TRUE] >>

HookListPool ==
    { NullRepositories,
      <<>>,
      << Repository(<<"a">>, <<"b">>, <<"B", " ", "c">>, Null) >>,
      << Repository(<<"a">>, <<"b">>, <<"p">>, <<"q">>),
         Repository(<<"a">>, <<"c">>, Null, <<"b", "-", "a", ".", "c">>),
         Repository(<<"a">>, <<"b">>, <<"B", " ", "c">>, Null) >>,
      << Repository(<<"o">>, <<"B", "-", "c">>, <<>>, Null),
         Repository(<<"b">>, <<"1">>, Null, <<>>) >> }

HookKeywordPool ==
    { << <<" ">>, <<>> >>,
      << <<"B">>, <<"q">> >>,
      << <<"c", "-", "b">>, <<"a">> >> }

\* !repositories || repositories.length === 0
NoRepositories(repositories) ==
    repositories = NullRepositories \/ Len(repositories) = 0

\* the first render: useRef(null), useState(false), useState(0)
InitHook ==
    /\ config = defaultConfig
    /\ documents = EmptyMap
    /\ invertedIndex = EmptyMap
    /\ documentFrequency = EmptyMap
    /\ inverseDocumentFrequency = EmptyMap
    /\ totalCorpusLength = 0
    /\ averageDocumentLength = 0
    /\ results = <<>>
    /\ call = [op |-> "new"]
    /\ rawTermFrequency = EmptyMap
    /\ consolidations = 0
    /\ \E repositories \in HookListPool :
            hook = [repositories |-> repositories,
                    previous |-> NullRepositories,
                    pc |-> "effect", next |-> 1, engineRef |-> "null",
                    isReady |-> FALSE, indexedCount |-> 0,
                    searchIsReady |-> FALSE, lastSearch |-> "none"]

\* a render with a new repositories argument: the search callback is made
\* again over the current isReady and the effect is scheduled
render(repositories) ==
    /\ hook.pc = "idle"
    /\ hook' = [hook EXCEPT !.previous = hook.repositories,
                            !.repositories = repositories,
                            !.pc = "effect",
                            !.searchIsReady = hook.isReady,
                            !.lastSearch = "none"]
    /\ UNCHANGED <<config, engine, results, call, rawTermFrequency,
                   consolidations>>

\* the render that follows setIsReady / setIndexedCount: same argument, no
\* effect
rerender ==
    /\ hook.pc = "idle"
    /\ hook.searchIsReady # hook.isReady
    /\ hook' = [hook EXCEPT !.searchIsReady = hook.isReady,
                            !.lastSearch = "none"]
    /\ UNCHANGED <<config, engine, results, call, rawTermFrequency,
                   consolidations>>

\* the effect on an empty or null list (lines 31-36)
effectEmpty ==
    /\ hook.pc = "effect"
    /\ NoRepositories(hook.repositories)
    /\ hook' = [hook EXCEPT !.engineRef = "null", !.isReady = FALSE,
                            !.indexedCount = 0, !.pc = "idle",
                            !.lastSearch = "none"]
    /\ UNCHANGED <<config, engine, results, call, rawTermFrequency,
                   consolidations>>

\* the effect going on with the engine engineRef.current already holds
\* instead of constructing one
effectNew_reusesEngine ==
    /\ hook.pc = "effect"
    /\ ~NoRepositories(hook.repositories)
    /\ consolidations' = 0
    /\ hook' = [hook EXCEPT !.pc = "adding", !.next = 1,
                            !.lastSearch = "none"]
    /\ UNCHANGED <<config, engine, results, call, rawTermFrequency>>

\* const engine = new RepositorySearchEngine() (line 38)
effectNew ==
    /\ hook.pc = "effect"
    /\ ~NoRepositories(hook.repositories)
    /\ config' = defaultConfig
    /\ documents' = EmptyMap
    /\ invertedIndex' = EmptyMap
    /\ documentFrequency' = EmptyMap
    /\ inverseDocumentFrequency' = EmptyMap
    /\ totalCorpusLength' = 0
    /\ averageDocumentLength' = 0
    /\ results' = <<>>
    /\ call' = [op |-> "new"]
    /\ rawTermFrequency' = EmptyMap
    /\ consolidations' = 0
    /\ hook' = [hook EXCEPT !.pc = "adding", !.next = 1,
                            !.lastSearch = "none"]

\* one turn of the loop: engine.add(repository) (lines 40-42)
effectAdd ==
    /\ hook.pc = "adding"
    /\ hook.next <= Len(hook.repositories)
    /\ add(hook.repositories[hook.next])
    /\ hook' = [hook EXCEPT !.next = hook.next + 1]

\* engine.consolidate() and the three assignments (lines 44-47)
effectConsolidate ==
    /\ hook.pc = "adding"
    /\ hook.next > Len(hook.repositories)
    /\ consolidate
    /\ hook' = [hook EXCEPT !.engineRef = "engine", !.indexedCount = size,
                            !.isReady = TRUE, !.pc = "idle"]

\* the search callback answering from the engine whenever engineRef.current
\* is set, without looking at isReady
HookSearch_noReadyCheck(keywords, limit) ==
    IF ~(hook.engineRef = "engine")
    THEN [delegated |-> FALSE, returned |-> <<>>]
    ELSE [delegated |-> TRUE, returned |-> SearchResults(keywords, limit)]

\* the search callback (lines 51-57): whether it calls engine.search, and
\* what it returns
HookSearch(keywords, limit) ==
    IF ~(hook.engineRef = "engine" /\ hook.searchIsReady)
    THEN [delegated |-> FALSE, returned |-> <<>>]
    ELSE [delegated |-> TRUE, returned |-> SearchResults(keywords, limit)]

\* a call of the search callback of the last render, between effects
hookSearch(keywords, limit) ==
    LET outcome == HookSearch(keywords, limit)
    IN /\ hook.pc \in {"idle", "effect"}
       /\ results' = outcome.returned
       /\ call' = [op |-> "search", keywords |-> keywords, limit |-> limit]
       /\ hook' = [hook EXCEPT !.lastSearch =
                    IF outcome.delegated THEN "delegated" ELSE "empty"]
       /\ UNCHANGED <<config, engine, rawTermFrequency, consolidations>>

NextHook ==
    \/ \E repositories \in HookListPool : render(repositories)
    \/ rerender
    \/ effectEmpty
    \/ effectNew
    \/ effectAdd
    \/ effectConsolidate
    \/ \E keywords \in HookKeywordPool, limit \in LimitPool :
            hookSearch(keywords, limit)

SpecHook == InitHook /\ [][NextHook]_vars

(***************************************************************************)
(* Vocabulary of the properties.                                           *)
(***************************************************************************)
Searched == call.op = "search"

\* the distinct tokens the last search call looked up
QueryTokens == Members(normalizeKeywords(call.keywords, config.maxKeywords))

\* the query tokens that document id held when it was added
Matched(id) == QueryTokens \cap DOMAIN rawTermFrequency[id]

\* the stored documents that hold at least one query token
Matching == {id \in DOMAIN documents : Matched(id) # {}}

RECURSIVE SumOver(_, _)
SumOver(map, keys) ==
    IF keys = {} THEN 0
    ELSE LET key == CHOOSE key \in keys : TRUE
         IN GetOr(map, key, 0) + SumOver(map, keys \ {key})

ResultIds == {results[i].id : i \in 1..Len(results)}

Min(x, y) == IF x <= y THEN x ELSE y

\* max(limit, 1), the limit defaulting to 10
Cap == Max(IF call.limit = Undefined THEN 10 ELSE call.limit, 1)

\* the score search owes document id: its stored values for the query
\* tokens it holds
ScoreOf(id) == SumOver(documents[id].termFrequency, Matched(id))

(***************************************************************************)
(* C1.  consolidate() is idempotent: after add calls and one              *)
(* consolidate(), a second consolidate() with no add in between leaves     *)
(* every document's score map, documentFrequency,                          *)
(* inverseDocumentFrequency and averageDocumentLength unchanged.           *)
(* The code feeds the scores of the first run back in as raw frequencies,  *)
(* so the second run changes them.                                         *)
(***************************************************************************)
C1_ConsolidateIdempotent ==
    [][(call.op = "consolidate" /\ consolidations = 1
            /\ call'.op = "consolidate")
        => engine' = engine]_vars

(***************************************************************************)
(* C2.  search on an engine on which consolidate() was never called        *)
(* returns the empty list, whatever was added.                             *)
(* The code has no such guard: it ranks by the raw weighted frequencies.   *)
(***************************************************************************)
C2_EmptyBeforeConsolidate ==
    (Searched /\ consolidations = 0) => results = <<>>

\* C2 as amended: before any consolidate(), search returns nothing only
\* when no stored document holds a query token; otherwise it returns the
\* documents that hold one (up to the limit), each scored by the sum of
\* its raw weighted frequencies of the query tokens it holds.
C2_RawScoresBeforeConsolidate ==
    (Searched /\ consolidations = 0) =>
        /\ ResultIds \subseteq Matching
        /\ Len(results) = Min(Cardinality(Matching), Cap)
        /\ \A i \in 1..Len(results) :
                results[i].score =
                    SumOver(rawTermFrequency[results[i].id],
                            Matched(results[i].id))

C2_Witness ==
    /\ Searched
    /\ consolidations = 0
    /\ Len(results) = 2
    /\ \E i \in 1..Len(results) : Cardinality(Matched(results[i].id)) > 1

(***************************************************************************)
(* C3.  add(r) for a repository whose id is already stored changes nothing *)
(* in the engine: size, the stored record (first added wins), every        *)
(* document's termFrequency and length, invertedIndex and                  *)
(* totalCorpusLength stay as they were.                                    *)
(***************************************************************************)
C3_DuplicateAddIsNoOp ==
    [][(call'.op = "add"
            /\ buildRepositoryId(call'.repository) \in DOMAIN documents)
        => (engine' = engine /\ size' = size)]_vars

\* a duplicate add whose record differs from the stored one was ignored
C3_Witness ==
    /\ call.op = "add"
    /\ buildRepositoryId(call.repository) \in DOMAIN documents
    /\ documents[buildRepositoryId(call.repository)].repository
            # call.repository
    /\ size = 1

(***************************************************************************)
(* C4.  In every reachable state, id is in invertedIndex[token] exactly    *)
(* when the document id is stored and its term-frequency map held token    *)
(* when it was added; no postings set names an id that is not stored.      *)
(***************************************************************************)
C4_PostingsMatchDocuments ==
    /\ \A token \in DOMAIN invertedIndex :
            \A id \in Members(invertedIndex[token]) :
                id \in DOMAIN documents
                    /\ token \in DOMAIN rawTermFrequency[id]
    /\ \A id \in DOMAIN documents :
            \A token \in DOMAIN rawTermFrequency[id] :
                token \in DOMAIN invertedIndex
                    /\ id \in Members(invertedIndex[token])

C4_Witness ==
    /\ consolidations > 0
    /\ \E token \in DOMAIN invertedIndex : Len(invertedIndex[token]) = 2
    /\ \E token \in DOMAIN invertedIndex : Len(invertedIndex[token]) = 1

(***************************************************************************)
(* C5.  When consolidate() returns on a non-empty corpus, every token that *)
(* is a key of a stored document's termFrequency has an entry in           *)
(* inverseDocumentFrequency.                                               *)
(***************************************************************************)
C5_ScoredTokensHaveIdf ==
    (call.op = "consolidate" /\ size > 0) =>
        \A id \in DOMAIN documents :
            DOMAIN documents[id].termFrequency
                \subseteq DOMAIN inverseDocumentFrequency

C5_Witness ==
    /\ call.op = "consolidate"
    /\ size = 2
    /\ \A id \in DOMAIN documents : DOMAIN documents[id].termFrequency # {}

(***************************************************************************)
(* C6.  add of a new document after a consolidate() does not consolidate:  *)
(* documentFrequency, inverseDocumentFrequency, averageDocumentLength and  *)
(* the termFrequency maps of the documents already stored are left as      *)
(* they were.                                                              *)
(***************************************************************************)
C6_AddLeavesStatisticsStale ==
    [][(call'.op = "add" /\ consolidations > 0
            /\ buildRepositoryId(call'.repository) \notin DOMAIN documents)
        => /\ documentFrequency' = documentFrequency
           /\ inverseDocumentFrequency' = inverseDocumentFrequency
           /\ averageDocumentLength' = averageDocumentLength
           /\ \A id \in DOMAIN documents : documents'[id] = documents[id]]_vars

\* a document added after a consolidate holds a token that has no idf yet
C6_Witness ==
    /\ call.op = "add"
    /\ consolidations > 0
    /\ size = 2
    /\ LET id == buildRepositoryId(call.repository)
       IN /\ id \in DOMAIN documents
          /\ documents[id].termFrequency = rawTermFrequency[id]
          /\ \E token \in DOMAIN documents[id].termFrequency :
                token \notin DOMAIN inverseDocumentFrequency

(***************************************************************************)
(* C7.  reset() leaves the engine as a freshly constructed one: no         *)
(* documents, empty invertedIndex, documentFrequency and                   *)
(* inverseDocumentFrequency, totalCorpusLength and averageDocumentLength   *)
(* 0.                                                                      *)
(***************************************************************************)
C7_ResetIsFresh ==
    call.op = "reset" =>
        /\ size = 0
        /\ documents = EmptyMap
        /\ invertedIndex = EmptyMap
        /\ documentFrequency = EmptyMap
        /\ inverseDocumentFrequency = EmptyMap
        /\ totalCorpusLength = 0
        /\ averageDocumentLength = 0

\* reset() ran on an engine holding two documents
C7_Witness == call.op = "reset" /\ call.cleared = 2

(***************************************************************************)
(* C8.  search returns at most max(limit, 1) results, limit defaulting to  *)
(* 10, and at least one whenever a stored document holds a query token,    *)
(* also for a limit of 0 or below.                                         *)
(***************************************************************************)
C8_LimitFloorAndCap ==
    Searched =>
        /\ Len(results) <= Cap
        /\ Matching # {} => Len(results) >= 1

\* eleven documents match and the default limit lets ten through
C8_Witness ==
    /\ Searched
    /\ call.limit = Undefined
    /\ Cardinality(Matching) = 11
    /\ Len(results) = 10

(***************************************************************************)
(* C9.  The results are in non-increasing order of score, and no document  *)
(* cut off by the limit has a score strictly greater than a returned one.  *)
(***************************************************************************)
C9_RankedByScore ==
    Searched =>
        /\ \A i \in 1..(Len(results) - 1) :
                results[i].score >= results[i + 1].score
        /\ \A id \in Matching \ ResultIds :
                \A i \in 1..Len(results) : ScoreOf(id) <= results[i].score

\* the limit cut off a document that scores strictly lower
C9_Witness ==
    /\ Searched
    /\ Len(results) = 1
    /\ \E id \in Matching \ ResultIds : ScoreOf(id) < results[1].score

C11_RepeatedKeywordCountsOnce ==
    Searched =>
        /\ SearchResults(call.keywords \o call.keywords \o call.keywords,
                         call.limit) = results
        /\ \A i \in 1..Len(call.keywords) :
                LET k == call.keywords[i]
                IN SearchResults(<<k, k, k>>, call.limit)
                        = SearchResults(<<k>>, call.limit)

\* three spellings of one token returned what the token alone returns
C11_Witness ==
    /\ Searched
    /\ call.keywords = << <<"B">>, <<" ", "b", " ">>, <<"b">> >>
    /\ consolidations = 1
    /\ Len(results) = 2
    /\ results = SearchResults(<< <<"b">> >>, call.limit)

(***************************************************************************)
(* C12.  search is case-insensitive: replacing any keyword by a string     *)
(* that differs from it only in letter case yields a result list of the    *)
(* same length with the same ids and the same scores.                      *)
(***************************************************************************)
\* String.prototype.toUpperCase, one character at a time
ToUpperCase(c) ==
    CASE c = "a" -> "A"
      [] c = "b" -> "B"
      [] c = "c" -> "C"
      [] c = "o" -> "O"
      [] c = "p" -> "P"
      [] c = "q" -> "Q"
      [] OTHER -> c

\* the strings that differ from s in letter case only
RECURSIVE CaseVariants(_)
CaseVariants(s) ==
    IF s = <<>> THEN {<<>>}
    ELSE {<<c>> \o rest : c \in {ToLowerCase(Head(s)), ToUpperCase(Head(s))},
                          rest \in CaseVariants(Tail(s))}

\* the keyword lists whose keywords differ from these in letter case only
RECURSIVE KeywordCaseVariants(_)
KeywordCaseVariants(keywords) ==
    IF keywords = <<>> THEN {<<>>}
    ELSE {<<k>> \o rest : k \in CaseVariants(Head(keywords)),
                          rest \in KeywordCaseVariants(Tail(keywords))}

C12_CaseInsensitive ==
    Searched =>
        \A variant \in KeywordCaseVariants(call.keywords) :
            LET other == SearchResults(variant, call.limit)
            IN /\ Len(other) = Len(results)
               /\ \A i \in 1..Len(results) :
                        /\ other[i].id = results[i].id
                        /\ other[i].score = results[i].score

\* an upper-case keyword found a document that spells the token in upper
\* case and one that spells it in lower case
C12_Witness ==
    /\ Searched
    /\ call.keywords = << <<"B">>, <<" ", "b", " ">>, <<"b">> >>
    /\ ResultIds = {"o/B-c", "a/c"}

(***************************************************************************)
(* C13.  Edge cases degrade to empty and never raise: search returns the   *)
(* empty list, without throwing, when the engine holds no documents, when  *)
(* keywords is the empty array, when every keyword is empty or             *)
(* whitespace-only, and when every keyword tokenizes to nothing;           *)
(* consolidate() on an engine with no documents returns without altering   *)
(* the engine.                                                             *)
(***************************************************************************)
\* keyword lists that name no token
EmptyQueries ==
    { <<>>,
      << <<>> >>,
      << <<" ">>, <<" ", " ">>, <<>> >>,
      << <<"-">>, <<".", " ", "-">> >> }

C13_EdgeCasesReturnEmpty ==
    /\ \A keywords \in EmptyQueries, limit \in LimitPool :
            SearchResults(keywords, limit) = <<>>
    /\ (Searched /\ (size = 0 \/ QueryTokens = {})) => results = <<>>
    /\ (call.op = "consolidate" /\ size = 0) =>
            engine = <<EmptyMap, EmptyMap, EmptyMap, EmptyMap, 0, 0>>

\* consolidate() ran on the empty engine, two documents were added and a
\* search with whitespace-only keywords returned nothing
C13_Witness ==
    /\ Searched
    /\ QueryTokens = {}
    /\ size = 2
    /\ consolidations = 1
    /\ documentFrequency = EmptyMap
    /\ results = <<>>

(***************************************************************************)
(* C14.  On a consolidated engine and with a limit no smaller than the     *)
(* corpus, search returns a document exactly when at least one normalized  *)
(* query token occurs in one of its indexed fields (owner, name,           *)
(* description, or the readme as far as it is read) whose field weight is  *)
(* positive; a document that contains none of the query tokens is never    *)
(* returned.                                                               *)
(***************************************************************************)
\* the tokens of a field, none when its weight is not positive
WeightedTokens(text, weight, limit) ==
    IF weight > 0 THEN Members(tokenize(OrEmpty(text), limit)) ELSE {}

\* the tokens of the indexed fields of a repository
IndexedTokens(repository) ==
    WeightedTokens(repository.owner, config.fieldWeights.owner, Undefined)
    \cup WeightedTokens(repository.name, config.fieldWeights.name, Undefined)
    \cup WeightedTokens(repository.description,
                        config.fieldWeights.description, Undefined)
    \cup WeightedTokens(repository.readme, config.fieldWeights.readme,
                        config.maxReadmeTokens)

C14_ReturnedIffTokenOccurs ==
    (Searched /\ consolidations > 0 /\ Cap >= size) =>
        ResultIds =
            {id \in DOMAIN documents :
                QueryTokens \cap IndexedTokens(documents[id].repository) # {}}

\* of two stored documents one was returned; the other holds a query token
\* only in a field whose weight is not positive
C14_Witness ==
    /\ Searched
    /\ consolidations > 0
    /\ Cap >= size
    /\ size = 2
    /\ Len(results) = 1
    /\ \E id \in DOMAIN documents \ ResultIds :
            LET repository == documents[id].repository
            IN QueryTokens \cap
                    (Members(tokenize(repository.owner, Undefined))
                     \cup Members(tokenize(OrEmpty(repository.description),
                                           Undefined))) # {}

(***************************************************************************)
(* C15.  For every result, matchedTokens is exactly the set of normalized  *)
(* query tokens that occur in that document: it has no duplicates, no      *)
(* token the document lacks and no token that is not in the query.         *)
(***************************************************************************)
C15_MatchedTokensExact ==
    Searched =>
        \A i \in 1..Len(results) :
            LET matched == results[i].matchedTokens
            IN /\ Members(matched) =
                    QueryTokens \cap
                        IndexedTokens(documents[results[i].id].repository)
               /\ Len(matched) = Cardinality(Members(matched))

\* one result matched two query tokens, another only one of them
C15_Witness ==
    /\ Searched
    /\ \E i, j \in 1..Len(results) :
            /\ Len(results[i].matchedTokens) = 2
            /\ Len(results[j].matchedTokens) = 1

(***************************************************************************)
(* C16.  Monotonic corpus growth: for a fixed term t and a fixed limit,    *)
(* adding further documents and consolidating again never decreases the    *)
(* number of results of search([t]), and every document that matched t     *)
(* before still matches after.                                             *)
(* In two parts: in every state search([t]) returns min(n, max(limit, 1))  *)
(* of the n stored documents in the postings of t, all n of them when the  *)
(* limit does not cut; and no add or consolidate() call takes a document   *)
(* out of that set.                                                        *)
(***************************************************************************)
\* the one-character terms queried
TermPool == {"b", "c", "q"}

\* the stored documents in the postings of token t
Postings(t) ==
    IF t \in DOMAIN invertedIndex
    THEN Members(invertedIndex[t]) \cap DOMAIN documents
    ELSE {}

\* the documents that match term t: what search([t]) returns when its
\* limit does not cut
MatchesOf(t) ==
    LET found == SearchResults(<< <<t>> >>, POSITIVE_INFINITY)
    IN {found[i].id : i \in 1..Len(found)}

C16_GrowthKeepsMatches ==
    /\ [](\A t \in TermPool :
            /\ MatchesOf(t) = Postings(t)
            /\ \A limit \in LimitPool :
                    Len(SearchResults(<< <<t>> >>, limit)) =
                        Min(Cardinality(Postings(t)), SearchLimit(limit)))
    /\ [][call'.op \in {"add", "consolidate"} =>
            \A t \in TermPool : Postings(t) \subseteq Postings(t)']_vars

\* a document added after a consolidate() raised the matches of b from one
\* to two
C16_Witness ==
    /\ call.op = "add"
    /\ consolidations = 1
    /\ size = 2
    /\ Cardinality(MatchesOf("b")) = 2
    /\ LET id == buildRepositoryId(call.repository)
       IN /\ id \in DOMAIN documents
          /\ documents[id].termFrequency = rawTermFrequency[id]
          /\ \E other \in DOMAIN documents \ {id} :
                documents[other].termFrequency # rawTermFrequency[other]

(***************************************************************************)
(* C17.  Field priority under the default weights: for any three           *)
(* documents in which a term occurs exactly once, in the name of the       *)
(* first, the description of the second and the owner of the third (and    *)
(* nowhere else), a search for the term after a single consolidate()       *)
(* ranks the name-match document first, whatever the other contents and    *)
(* lengths of the three documents.                                         *)
(* The length normalisation lets a long name-match document fall behind a  *)
(* short description-match document.                                       *)
(***************************************************************************)
\* how often token t occurs in a field
Occurrences(text, t) ==
    LET tokens == tokenize(OrEmpty(text), Undefined)
    IN Cardinality({i \in 1..Len(tokens) : tokens[i] = t})

\* where token t occurs in a repository: owner, name, description, readme
OccurrencesIn(repository, t) ==
    << Occurrences(repository.owner, t), Occurrences(repository.name, t),
       Occurrences(repository.description, t),
       Occurrences(repository.readme, t) >>

NameMatches == {id \in DOMAIN documents :
                    OccurrencesIn(documents[id].repository, "q")
                        = <<0, 1, 0, 0>>}
DescriptionMatches == {id \in DOMAIN documents :
                    OccurrencesIn(documents[id].repository, "q")
                        = <<0, 0, 1, 0>>}
OwnerMatches == {id \in DOMAIN documents :
                    OccurrencesIn(documents[id].repository, "q")
                        = <<1, 0, 0, 0>>}

\* a search for q on three documents, one match of each kind, that one
\* consolidate() has seen
OneOfEachSearched ==
    /\ Searched
    /\ call.keywords = PriorityKeywords
    /\ size = 3
    /\ Cardinality(NameMatches) = 1
    /\ Cardinality(DescriptionMatches) = 1
    /\ Cardinality(OwnerMatches) = 1
    /\ consolidations = 1
    /\ GetOr(documentFrequency, "q", 0) = 3

C17_NameRanksFirst ==
    OneOfEachSearched =>
        /\ results # <<>>
        /\ results[1].id \in NameMatches

\* C17 as amended: the name-match document ranks first provided its
\* weighted length is not greater than that of the other two documents.
C17_NameRanksFirstWhenNotLonger ==
    (OneOfEachSearched
        /\ \A n \in NameMatches : \A id \in DOMAIN documents :
                documents[n].length <= documents[id].length)
    => /\ results # <<>>
       /\ results[1].id \in NameMatches

\* three documents of equal length, ranked name, description, owner
C17_Witness ==
    /\ OneOfEachSearched
    /\ \A id, other \in DOMAIN documents :
            documents[id].length = documents[other].length
    /\ Len(results) = 3
    /\ results[1].id \in NameMatches
    /\ results[2].id \in DescriptionMatches
    /\ results[1].score > results[2].score

(***************************************************************************)
(* C18.  Readme token cap: for every configured maxReadmeTokens value N,   *)
(* at most the first N tokens (in source order) of a document's readme are *)
(* indexed; a token that occurs in the readme only after position N, and   *)
(* in no other field, is absent from the document's term map and           *)
(* postings, so searching it does not return that document.                *)
(* tokenize tests the limit for truthiness, so N = 0 caps nothing.         *)
(***************************************************************************)
\* the elements at the first n positions of a sequence
FirstN(seq, n) == {seq[i] : i \in {j \in 1..Len(seq) : j <= n}}

\* the tokens a repository holds only in its readme, and there only after
\* position maxReadmeTokens
ReadmeOnlyBeyondCap(repository) ==
    LET readme == tokenize(OrEmpty(repository.readme), Undefined)
    IN Members(readme) \
        (FirstN(readme, config.maxReadmeTokens)
         \cup Members(tokenize(repository.owner, Undefined))
         \cup Members(tokenize(repository.name, Undefined))
         \cup Members(tokenize(OrEmpty(repository.description), Undefined)))

C18_ReadmeCap ==
    \A id \in DOMAIN documents :
        \A t \in ReadmeOnlyBeyondCap(documents[id].repository) :
            /\ t \notin DOMAIN rawTermFrequency[id]
            /\ t \notin DOMAIN documents[id].termFrequency
            /\ id \notin Postings(t)
            /\ id \notin MatchesOf(t)

(***************************************************************************)
(* C19.  Keyword cap: for every configured maxKeywords value M, the tokens *)
(* that contribute to a search are exactly the distinct tokens among the   *)
(* first M tokens of the flattened keyword token sequence (truncation      *)
(* happens before deduplication): at most M tokens are considered and a    *)
(* token appearing only after position M contributes nothing.              *)
(* normalizeKeywords tests the limit for truthiness, so M = 0 caps         *)
(* nothing.                                                                *)
(***************************************************************************)
\* the tokens of all the keywords, in order
RECURSIVE Flatten(_)
Flatten(keywords) ==
    IF keywords = <<>> THEN <<>>
    ELSE tokenize(Head(keywords), Undefined) \o Flatten(Tail(keywords))

\* the distinct tokens among the first maxKeywords tokens of the last query
FirstKeywordTokens == FirstN(Flatten(call.keywords), config.maxKeywords)

C19_KeywordCap ==
    Searched =>
        /\ \A i \in 1..Len(results) :
                Members(results[i].matchedTokens) =
                    FirstKeywordTokens \cap
                        IndexedTokens(documents[results[i].id].repository)
        /\ Cap >= size =>
                ResultIds =
                    {id \in DOMAIN documents :
                        FirstKeywordTokens \cap
                            IndexedTokens(documents[id].repository) # {}}

(***************************************************************************)
(* C20.  The fatal error "Invariant violated: missing repository document" *)
(* is unreachable through the public API: in no state reached by any       *)
(* sequence of add, consolidate, search and reset does search rank a       *)
(* document id that is absent from the document store.                     *)
(***************************************************************************)
C20_MissingDocumentUnreachable ==
    /\ results # InvariantViolated
    /\ \A i \in 1..Len(results) :
            /\ results[i].id \in DOMAIN documents
            /\ results[i].repository = documents[results[i].id].repository

\* search ranked a document consolidate() has scored and one added after it
C20_Witness ==
    /\ Searched
    /\ consolidations = 1
    /\ \E i, j \in 1..Len(results) :
            /\ documents[results[i].id].termFrequency
                    = rawTermFrequency[results[i].id]
            /\ documents[results[j].id].termFrequency
                    # rawTermFrequency[results[j].id]

(***************************************************************************)
(* C21.  With the default k = 1, the IDF computed by consolidate() is      *)
(* non-negative for every token, including a token that appears in all N   *)
(* documents: for all 1 <= df <= N the logarithm's argument                *)
(* (N - df + 0.5)/(df + 0.5) + k is at least 1.                            *)
(***************************************************************************)
\* the argument of the logarithm for a token held by df of n documents
IdfArgument(df, n) ==
    Div((n - df) * SCALE + SCALE \div 2, df * SCALE + SCALE \div 2) + config.k

C21_IdfNonNegative ==
    config.k = SCALE =>
        /\ \A token \in DOMAIN inverseDocumentFrequency :
                inverseDocumentFrequency[token] >= 0
        /\ (call.op = "consolidate" /\ size > 0) =>
                \A token \in DOMAIN inverseDocumentFrequency :
                    LET df == documentFrequency[token]
                    IN /\ 1 <= df /\ df <= size
                       /\ IdfArgument(df, size) >= SCALE
                       /\ inverseDocumentFrequency[token]
                            = MathLog(IdfArgument(df, size))

\* eleven documents: one token held by all of them, one by a single one
C21_Witness ==
    /\ call.op = "consolidate"
    /\ size = 11
    /\ \E token \in DOMAIN documentFrequency :
            /\ documentFrequency[token] = size
            /\ inverseDocumentFrequency[token] > 0
    /\ \E token \in DOMAIN documentFrequency :
            documentFrequency[token] = 1

(***************************************************************************)
(* C22.  useRepositorySearch: whenever the repositories argument is empty  *)
(* or null, after the effect has run isReady is false and indexedCount is  *)
(* 0, and the returned search function returns [] for every keyword list;  *)
(* search never delegates to an engine while isReady is false.             *)
(***************************************************************************)
C22_EmptyListNotReady ==
    /\ (hook.pc = "idle" /\ NoRepositories(hook.repositories)) =>
            /\ hook.isReady = FALSE
            /\ hook.indexedCount = 0
            /\ \A keywords \in HookKeywordPool, limit \in LimitPool :
                    HookSearch(keywords, limit).returned = <<>>
            /\ hook.lastSearch # "none" => results = <<>>
    /\ hook.lastSearch = "delegated" =>
            hook.isReady /\ hook.searchIsReady

\* the list became empty after a non-empty one was indexed; the callback
\* that closed over isReady = true was called and returned []
C22_Witness ==
    /\ hook.pc = "idle"
    /\ hook.repositories = <<>>
    /\ ~NoRepositories(hook.previous)
    /\ hook.searchIsReady
    /\ size > 0
    /\ hook.lastSearch = "empty"
    /\ call.keywords = << <<"B">>, <<"q">> >>

(***************************************************************************)
(* C23.  useRepositorySearch re-indexes from scratch on every change of    *)
(* the repositories argument: after the effect has run for a non-empty     *)
(* list, the engine used by search is a newly built, consolidated engine   *)
(* containing exactly the distinct owner/name ids of the latest list (none *)
(* left over from an earlier list), indexedCount equals that engine's      *)
(* size, and isReady is true.                                              *)
(***************************************************************************)
\* the ids of a list of repositories
IdsOf(repositories) ==
    IF NoRepositories(repositories) THEN {}
    ELSE {buildRepositoryId(repositories[i]) : i \in 1..Len(repositories)}

\* the first repository of the list that has this id
FirstWithId(repositories, id) ==
    repositories[CHOOSE i \in 1..Len(repositories) :
                    /\ buildRepositoryId(repositories[i]) = id
                    /\ \A j \in 1..(i - 1) :
                            buildRepositoryId(repositories[j]) # id]

C23_ReindexedFromScratch ==
    (hook.pc = "idle" /\ ~NoRepositories(hook.repositories)) =>
        /\ hook.engineRef = "engine"
        /\ hook.isReady
        /\ hook.indexedCount = size
        /\ DOMAIN documents = IdsOf(hook.repositories)
        /\ \A id \in DOMAIN documents :
                documents[id].repository
                    = FirstWithId(hook.repositories, id)
        /\ consolidations = 1
        /\ config = defaultConfig
        /\ \A token \in DOMAIN invertedIndex :
                /\ Members(invertedIndex[token]) \subseteq DOMAIN documents
                /\ documentFrequency[token] = Len(invertedIndex[token])
        /\ \A id \in DOMAIN documents :
                DOMAIN documents[id].termFrequency
                    = DOMAIN rawTermFrequency[id]

\* the latest list shares an id with the list before it, under another
\* record, and the list before it held an id the latest one lacks
C23_Witness ==
    /\ hook.pc = "idle"
    /\ ~NoRepositories(hook.repositories)
    /\ IdsOf(hook.previous) \ IdsOf(hook.repositories) # {}
    /\ \E id \in IdsOf(hook.previous) \cap IdsOf(hook.repositories) :
            FirstWithId(hook.previous, id)
                # FirstWithId(hook.repositories, id)
    /\ hook.lastSearch = "delegated"
    /\ results # <<>>

(***************************************************************************)
(* C24.  Raw term-frequency accumulation: immediately after add(r) of a    *)
(* new document and before any consolidate(), the document's               *)
(* termFrequency[token] equals the sum over the four fields of (field      *)
(* weight x number of occurrences of token in that field's indexed         *)
(* tokens), so a token occurring in both name and description accumulates  *)
(* both weights, and fields with weight <= 0 or empty/null text contribute *)
(* nothing to termFrequency, postings or length.                           *)
(***************************************************************************)
\* the indexed tokens of a field: none when its weight is not positive
FieldTokens(text, weight, limit) ==
    IF weight > 0 THEN tokenize(OrEmpty(text), limit) ELSE <<>>

\* weight x the number of occurrences of token t among the indexed tokens
WeightedCount(text, weight, limit, t) ==
    LET tokens == FieldTokens(text, weight, limit)
    IN weight * Cardinality({i \in 1..Len(tokens) : tokens[i] = t})

\* the raw weighted frequency of token t in a repository
RawFrequency(repository, t) ==
    WeightedCount(repository.owner, config.fieldWeights.owner, Undefined, t)
    + WeightedCount(repository.name, config.fieldWeights.name, Undefined, t)
    + WeightedCount(repository.description,
                    config.fieldWeights.description, Undefined, t)
    + WeightedCount(repository.readme, config.fieldWeights.readme,
                    config.maxReadmeTokens, t)

\* the weighted number of indexed tokens of a repository
RawLength(repository) ==
    config.fieldWeights.owner
        * Len(FieldTokens(repository.owner, config.fieldWeights.owner,
                          Undefined))
    + config.fieldWeights.name
        * Len(FieldTokens(repository.name, config.fieldWeights.name,
                          Undefined))
    + config.fieldWeights.description
        * Len(FieldTokens(repository.description,
                          config.fieldWeights.description, Undefined))
    + config.fieldWeights.readme
        * Len(FieldTokens(repository.readme, config.fieldWeights.readme,
                          config.maxReadmeTokens))

C24_RawFrequenciesAccumulate ==
    \A id \in DOMAIN documents :
        LET repository == documents[id].repository
        IN /\ DOMAIN rawTermFrequency[id] = IndexedTokens(repository)
           /\ \A t \in IndexedTokens(repository) :
                    rawTermFrequency[id][t] = RawFrequency(repository, t)
           /\ consolidations = 0 =>
                    documents[id].termFrequency = rawTermFrequency[id]
           /\ documents[id].length = RawLength(repository)
           /\ \A t \in DOMAIN invertedIndex :
                    id \in Members(invertedIndex[t])
                        <=> t \in IndexedTokens(repository)

\* a new document was added whose name and description share a token
C24_Witness ==
    /\ call.op = "add"
    /\ consolidations = 0
    /\ config.fieldWeights.description > 0
    /\ LET id == buildRepositoryId(call.repository)
       IN /\ id \in DOMAIN documents
          /\ documents[id].repository = call.repository
          /\ \E t \in DOMAIN documents[id].termFrequency :
                /\ Occurrences(call.repository.name, t) = 1
                /\ Occurrences(call.repository.description, t) = 1
                /\ documents[id].termFrequency[t] =
                        config.fieldWeights.name
                            + config.fieldWeights.description

(***************************************************************************)
(* C25.  Average length and corpus total: immediately after consolidate()  *)
(* on N > 0 documents, averageDocumentLength equals (sum of doc.length     *)
(* over all stored documents) / N, and totalCorpusLength never drifts from *)
(* the sum of the stored documents' lengths, after any interleaving of     *)
(* add (including duplicate adds), consolidate and reset.                  *)
(***************************************************************************)
\* the sum of the stored documents' lengths
RECURSIVE LengthSum(_)
LengthSum(ids) ==
    IF ids = {} THEN 0
    ELSE LET id == CHOOSE id \in ids : TRUE
         IN documents[id].length + LengthSum(ids \ {id})

C25_CorpusLengthExact ==
    /\ totalCorpusLength = LengthSum(DOMAIN documents)
    /\ (call.op = "consolidate" /\ size > 0) =>
            averageDocumentLength = LengthSum(DOMAIN documents) \div size

\* two documents of different lengths were consolidated
C25_Witness ==
    /\ call.op = "consolidate"
    /\ size = 2
    /\ \E id, other \in DOMAIN documents :
            documents[id].length < documents[other].length
    /\ averageDocumentLength > 0
    /\ 2 * averageDocumentLength <= totalCorpusLength

(***************************************************************************)
(* C26.  The score of each returned document equals the sum, over the      *)
(* distinct normalized query tokens that occur in that document, of the    *)
(* value stored for that token in the document's termFrequency map at the  *)
(* time of the search; query tokens the document lacks add nothing.        *)
(***************************************************************************)
C26_ScoreIsSumOfStoredValues ==
    Searched =>
        \A i \in 1..Len(results) :
            /\ results[i].id \in DOMAIN documents
            /\ results[i].score = ScoreOf(results[i].id)

\* after a consolidate, a returned document holds two of the query tokens
\* and lacks a third; another returned document holds fewer
C26_Witness ==
    /\ Searched
    /\ consolidations > 0
    /\ Len(results) = 2
    /\ Cardinality(QueryTokens) >= 3
    /\ \E i \in 1..Len(results) :
        /\ Cardinality(Matched(results[i].id)) = 2
        /\ QueryTokens \ Matched(results[i].id) # {}
        /\ \A t \in Matched(results[i].id) :
                GetOr(documents[results[i].id].termFrequency, t, 0) > 0
        /\ results[i].score > 0
    /\ \E i \in 1..Len(results) : Cardinality(Matched(results[i].id)) = 1

(***************************************************************************)
(* C27.  Unknown query tokens contribute nothing: for any engine state and *)
(* any keyword list, inserting at any position a keyword whose tokens have *)
(* no postings entry leaves the result of search (ids, order, scores,      *)
(* matchedTokens) unchanged and raises no error.                           *)
(***************************************************************************)
\* keywords to insert into a query
InsertedPool ==
    { <<"z">>, <<"q">>, <<"o", " ", "1">>, <<" ", "Z", "-", "9">> }

\* the keywords all of whose tokens have no postings entry
UnknownKeywords ==
    {keyword \in InsertedPool :
        /\ tokenize(keyword, Undefined) # <<>>
        /\ \A i \in 1..Len(tokenize(keyword, Undefined)) :
                tokenize(keyword, Undefined)[i] \notin DOMAIN invertedIndex}

\* keywords with keyword inserted after its first p elements
InsertAt(keywords, p, keyword) ==
    SubSeq(keywords, 1, p) \o <<keyword>>
        \o SubSeq(keywords, p + 1, Len(keywords))

\* normalizeKeywords cuts no token of the list
Uncut(keywords) ==
    \/ ~Truthy(config.maxKeywords)
    \/ Len(Flatten(keywords)) <= config.maxKeywords

Bm25Idf(df, n) ==
    MathLog(Div((n - df) * SCALE + SCALE \div 2, df * SCALE + SCALE \div 2)
                + config.k)

\* freq * (k1 + 1) / (freq + k1 * (1 - b + b * length / average)) + delta
Bm25Tf(freq, length, average) ==
    Div(Mul(freq, config.k1 + SCALE),
        freq + Mul(config.k1,
                   SCALE - config.b + Mul(config.b, Div(length, average))))
        + config.delta

C28_FirstConsolidateScores ==
    (call.op = "consolidate" /\ consolidations = 1) =>
        \A id \in DOMAIN documents :
            /\ DOMAIN documents[id].termFrequency
                    = DOMAIN rawTermFrequency[id]
            /\ \A t \in DOMAIN rawTermFrequency[id] :
                    documents[id].termFrequency[t] =
                        Mul(Bm25Tf(rawTermFrequency[id][t],
                                   documents[id].length,
                                   averageDocumentLength),
                            Bm25Idf(Cardinality(Postings(t)), size))

\* the first consolidate of two documents of different lengths sharing a
\* token, one of them holding a token the other lacks
C28_Witness ==
    /\ call.op = "consolidate"
    /\ consolidations = 1
    /\ size = 2
    /\ \E id, other \in DOMAIN documents :
        /\ documents[id].length < documents[other].length
        /\ \E t \in DOMAIN rawTermFrequency[id] :
                /\ t \in DOMAIN rawTermFrequency[other]
                /\ documents[id].termFrequency[t] > 0
                /\ documents[id].termFrequency[t]
                        # documents[other].termFrequency[t]
        /\ DOMAIN rawTermFrequency[other] \ DOMAIN rawTermFrequency[id] # {}

(***************************************************************************)
(* C29.  Keeping raw frequencies apart from derived scores is not a        *)
(* behaviour change: an engine that retains each document's raw weighted   *)
(* frequencies and recomputes all scores from them at every consolidate()  *)
(* is observationally equivalent to this engine, for every sequence of     *)
(* add, consolidate, search and reset, including add; consolidate; add;    *)
(* consolidate and repeated consolidate: after every consolidate() the     *)
(* stored scores are those computed from the raw frequencies, as in a      *)
(* fresh engine given the same documents and consolidated once.            *)
(* The code computes the scores of a later consolidate() from the scores   *)
(* of the one before.                                                      *)
(***************************************************************************)
\* the scores of document id recomputed from the frequencies add() gave it
ScoresFromRaw(id) ==
    normalizeDocumentFrequencies(
        [documents[id] EXCEPT !.termFrequency = rawTermFrequency[id]],
        inverseDocumentFrequency, averageDocumentLength)

C29_ScoresFromRawFrequencies ==
    call.op = "consolidate" =>
        \A id \in DOMAIN documents :
            documents[id].termFrequency = ScoresFromRaw(id)

(***************************************************************************)
(* C30.  search is read-only: in every reachable state, a search call      *)
(* (whatever its keywords and limit, and whether it returns results or []) *)
(* leaves documents, every document's termFrequency and length,            *)
(* invertedIndex, documentFrequency, inverseDocumentFrequency,             *)
(* totalCorpusLength and averageDocumentLength unchanged, so two identical *)
(* consecutive search calls return identical results.                      *)
(***************************************************************************)
C30_SearchReadOnly ==
    [][call'.op = "search" =>
            /\ documents' = documents
            /\ invertedIndex' = invertedIndex
            /\ documentFrequency' = documentFrequency
            /\ inverseDocumentFrequency' = inverseDocumentFrequency
            /\ totalCorpusLength' = totalCorpusLength
            /\ averageDocumentLength' = averageDocumentLength
            /\ config' = config
            /\ (Searched /\ call' = call) => results' = results]_vars

\* a search that returned two documents while averageDocumentLength lagged
\* behind the corpus (a document was added after the last consolidate)
C30_Witness ==
    /\ Searched
    /\ Len(results) = 2
    /\ consolidations = 1
    /\ size = 2
    /\ averageDocumentLength # totalCorpusLength \div size

====
